---- MODULE Spec2Model ----
(***************************************************************************)
(* Model of terraform/ai_analysis_workflow.py: the rule-based pattern      *)
(* classifier and scorer of UserWorkflowAnalyzer and the batch driver      *)
(* run_daily_analysis.                                                     *)
(*                                                                         *)
(* Python dicts are records; a key that is absent from a dict is absent    *)
(* from the record's DOMAIN, so dict.get(k, default) is Get(d, k, default).*)
(* sessions_per_user is in tenths; the floats of _detect_trend and of      *)
(* _categorize_growth are computed as binary64 does.                       *)
(***************************************************************************)
EXTENDS Integers, Sequences, FiniteSets, TLC

VARIABLES idx, pc, user_data, patterns, insights, recommendations,
          table, alerts, log, classified, clock

\* classified records each call of _analyze_patterns (argument and result);
\* clock is the wall clock datetime.now() reads, in seconds
vars == <<idx, pc, user_data, patterns, insights, recommendations,
          table, alerts, log, classified, clock>>

-----------------------------------------------------------------------------
(* Bounds of the model *)

MaxRevLen == 2

MaxWebLen == 2

\* seconds that may pass between two successive readings of the clock
MaxElapsed == 1

\* days in the website series handed to _detect_trend alone
MaxTrendLen == 6

-----------------------------------------------------------------------------
(* Dict helpers *)

EmptyDict == [k \in {} |-> 0]

Has(d, k) == k \in DOMAIN d

Get(d, k, default) == IF k \in DOMAIN d THEN d[k] ELSE default

RECURSIVE SumSeq(_)
SumSeq(s) == IF s = <<>> THEN 0 ELSE s[1] + SumSeq(Tail(s))

Abs(n) == IF n < 0 THEN -n ELSE n

SeqsUpTo(S, n) == UNION {[1..k -> S] : k \in 0..n}

-----------------------------------------------------------------------------
(* Python floats: IEEE 754 binary64, every operation rounded to nearest,   *)
(* ties to even.  A non-negative float is held exactly as the record       *)
(* [n, q, d] with value (n * 2^FracBits + d) / (q * 2^FracBits): n / q is   *)
(* the result in exact arithmetic and d the rounding error accumulated so  *)
(* far.  The representation covers 0 and the floats from 2^-8 up to 2^12.  *)

FracBits == 60

Pow2(e) == 2 ^ e

\* 2^e modulo m
RECURSIVE PowMod(_, _)
PowMod(e, m) ==
    IF e = 0 THEN 1 % m
    ELSE LET h == PowMod(e \div 2, m)
         IN  (((h * h) % m) * (IF e % 2 = 1 THEN 2 ELSE 1)) % m

RECURSIVE Gcd(_, _)
Gcd(a, b) == IF b = 0 THEN a ELSE Gcd(b, a % b)

Sign(x) == IF x > 0 THEN 1 ELSE IF x < 0 THEN -1 ELSE 0

FloatOfInt(i) == [n |-> i, q |-> 1, d |-> 0]

\* the k with 2^k <= num / den < 2^(k+1)
RECURSIVE Exponent(_, _)
Exponent(num, den) ==
    IF num >= 2 * den THEN Exponent(num, 2 * den) + 1
    ELSE IF num < den THEN Exponent(2 * num, den) - 1
    ELSE 0

\* the float nearest to the exact value x, which is not 0; below is the sign
\* of a part of the exact value that is too small for d and decides an exact
\* tie only
RoundValue(x, below) ==
    LET k0   == Exponent(x.n, x.q)
        pow  == IF k0 >= 0 THEN x.n = Pow2(k0) * x.q ELSE x.n * Pow2(-k0) = x.q
        \* a negative error below a power of two: the next lower binade
        k    == IF x.d < 0 /\ pow THEN k0 - 1 ELSE k0
        s    == FracBits + k - 52
        ulp  == x.q * Pow2(s)
        high == Pow2(s + 1) * (((x.n % x.q) * PowMod(51 - k, x.q)) % x.q)
        rem2 == (high + x.d) % (2 * ulp)
        rem  == rem2 % ulp
        odd  == rem2 >= ulp
        up   == \/ 2 * rem > ulp
                \/ 2 * rem = ulp /\ (below > 0 \/ (below = 0 /\ odd))
    IN  [n |-> x.n, q |-> x.q, d |-> x.d + (IF up THEN ulp - rem ELSE -rem)]

\* (an operand is computed once: the set {x} holds its value)
RoundToFloat(x, below) ==
    CHOOSE r \in {IF v.n = 0 THEN v ELSE RoundValue(v, below) : v \in {x}} : TRUE

\* a / b of two ints; also the value of a decimal literal such as 1.1 (11 / 10)
IntTrueDiv(a, b) == RoundToFloat([n |-> a, q |-> b, d |-> 0], 0)

\* the exact sum of two floats
SumOf(x, y) ==
    LET q == (x.q \div Gcd(x.q, y.q)) * y.q
    IN  [n |-> x.n * (q \div x.q) + y.n * (q \div y.q), q |-> q,
         d |-> x.d * (q \div x.q) + y.d * (q \div y.q)]

FloatAdd(x, y) ==
    CHOOSE r \in {RoundToFloat(SumOf(v, w), 0) : v \in {x}, w \in {y}} : TRUE

\* the exact product of two floats without the product of their errors
ProductOf(x, y) ==
    [n |-> x.n * y.n, q |-> x.q * y.q, d |-> x.n * y.d + y.n * x.d]

FloatMul(x, y) ==
    CHOOSE r \in {RoundToFloat(ProductOf(v, w), Sign(v.d) * Sign(w.d))
                     : v \in {x}, w \in {y}} : TRUE

FloatDivInt(x, k) ==
    CHOOSE r \in {RoundToFloat([n |-> v.n, q |-> v.q * k, d |-> v.d], 0) : v \in {x}}
        : TRUE

FloatLess(x, y) ==
    \E v \in {x}, w \in {y} :
        \/ v.n * w.q < w.n * v.q
        \/ v.n * w.q = w.n * v.q /\ v.d * w.q < w.d * v.q

-----------------------------------------------------------------------------
(* Input domain: the four record groups _fetch_user_data returns *)

ActiveUsers == <<"user_123", "user_456", "user_789">>

RevenueRows ==
    {[revenue |-> 500, growth_rate |-> 5],
     [revenue |-> 500, growth_rate |-> 8],
     [revenue |-> 5001, growth_rate |-> 8],
     [revenue |-> 5001, growth_rate |-> -30],
     [revenue |-> 1001, growth_rate |-> 0],
     [revenue |-> 1001]}

DeveloperRows ==
    {[productivity_score |-> p, avg_pr_merge_time |-> 1, most_active_day |-> 2,
      most_active_hour |-> 10, total_prs |-> 12] : p \in {50, 60, 120}}
        \cup {[total_prs |-> 3, most_active_day |-> 9]}

CustomerRows ==
    {[lifetime_value |-> 500, engagement_level |-> e, total_invoices |-> 3]
        : e \in {"high", "medium", "low"}}
        \cup {[lifetime_value |-> 20000, stripe_customer_id |-> "cus_1",
               shopify_customer_id |-> "shop_1"]}

\* a row whose daily_users column is absent: d['daily_users'] raises KeyError
BadWebsiteRow ==
    [bounce_rate |-> 40, sessions_per_user |-> 10, new_users |-> 0, users |-> 0]

WebsiteRows ==
    {[daily_users |-> 100, bounce_rate |-> 40, sessions_per_user |-> 20,
      new_users |-> 30, users |-> 100],
     [daily_users |-> 200, bounce_rate |-> 40, sessions_per_user |-> 20,
      new_users |-> 30, users |-> 100],
     [daily_users |-> 100, bounce_rate |-> 60, sessions_per_user |-> 10,
      new_users |-> 80, users |-> 100],
     BadWebsiteRow}

Snapshots ==
    [customer  : CustomerRows \cup {EmptyDict},
     developer : DeveloperRows \cup {EmptyDict},
     revenue   : SeqsUpTo(RevenueRows, MaxRevLen),
     website   : SeqsUpTo(WebsiteRows, MaxWebLen)]

-----------------------------------------------------------------------------
(* Helper methods of UserWorkflowAnalyzer *)

DetectSeasonality(revenue_data) ==
    IF Len(revenue_data) < 12 THEN "insufficient_data" ELSE "no_seasonality"

\* variant: the thresholds are inclusive
CategorizeActivityInclusive(score) ==
    IF score >= 100 THEN "very_active"
    ELSE IF score >= 50 THEN "active"
    ELSE IF score >= 20 THEN "moderate"
    ELSE "low"

CategorizeActivity(score) ==
    IF score > 100 THEN "very_active"
    ELSE IF score > 50 THEN "active"
    ELSE IF score > 20 THEN "moderate"
    ELSE "low"

\* variant: the thresholds are inclusive
CategorizeLtvInclusive(ltv) ==
    IF ltv >= 10000 THEN "enterprise"
    ELSE IF ltv >= 1000 THEN "premium"
    ELSE IF ltv >= 100 THEN "standard"
    ELSE "basic"

CategorizeLtv(ltv) ==
    IF ltv > 10000 THEN "enterprise"
    ELSE IF ltv > 1000 THEN "premium"
    ELSE IF ltv > 100 THEN "standard"
    ELSE "basic"

\* variant: only the upper end is checked, a negative index counts from the end
\* of the list
DayNameNoLowerBound(day_num) ==
    LET days == <<"Sunday", "Monday", "Tuesday", "Wednesday", "Thursday",
                  "Friday", "Saturday">>
    IN  IF day_num <= 6 THEN days[(day_num % 7) + 1] ELSE "Unknown"

DayName(day_num) ==
    LET days == <<"Sunday", "Monday", "Tuesday", "Wednesday", "Thursday",
                  "Friday", "Saturday">>
    IN  IF 0 <= day_num /\ day_num <= 6 THEN days[day_num + 1] ELSE "Unknown"

\* the float literals 1.1 and 0.9 of _detect_trend, 0.7 and 0.3 of _categorize_growth
Float_1_1 == IntTrueDiv(11, 10)

Float_0_9 == IntTrueDiv(9, 10)

Float_0_7 == IntTrueDiv(7, 10)

Float_0_3 == IntTrueDiv(3, 10)

\* first_half = sum(values[:n//2]) / (n//2), second_half = sum(values[n//2:]) / (n - n//2),
\* compared with first_half * 1.1 and first_half * 0.9 in floats
DetectTrend(values) ==
    IF Len(values) < 2 THEN "insufficient_data"
    ELSE LET n  == Len(values)
             n1 == n \div 2
             first_half  == IntTrueDiv(SumSeq(SubSeq(values, 1, n1)), n1)
             second_half == IntTrueDiv(SumSeq(SubSeq(values, n1 + 1, n)), n - n1)
         IN  IF FloatLess(FloatMul(first_half, Float_1_1), second_half)
             THEN "growing"
             ELSE IF FloatLess(second_half, FloatMul(first_half, Float_0_9))
             THEN "declining"
             ELSE "stable"

\* sum(d['new_users'] / d['users'] if d['users'] > 0 else 0 for d in website_data):
\* float additions from left to right
RECURSIVE RatioSum(_)
RatioSum(website_data) ==
    IF website_data = <<>> THEN FloatOfInt(0)
    ELSE LET n == Len(website_data)
             d == website_data[n]
         IN  FloatAdd(RatioSum(SubSeq(website_data, 1, n - 1)),
                      IF d.users > 0 THEN IntTrueDiv(d.new_users, d.users)
                      ELSE FloatOfInt(0))

CategorizeGrowth(website_data) ==
    IF website_data = <<>> THEN "no_data"
    ELSE LET new_user_ratio == FloatDivInt(RatioSum(website_data), Len(website_data))
         IN  IF FloatLess(Float_0_7, new_user_ratio) THEN "early_stage"
             ELSE IF FloatLess(Float_0_3, new_user_ratio) THEN "growth_stage"
             ELSE "mature_stage"

-----------------------------------------------------------------------------
(* The four sub-classifiers *)

\* growth_rates = [r['growth_rate'] for r in revenue_data if r.get('growth_rate')]
RECURSIVE GrowthRatesOf(_)
GrowthRatesOf(revenue_data) ==
    IF revenue_data = <<>> THEN <<>>
    ELSE LET r == revenue_data[1]
         IN  (IF Has(r, "growth_rate") /\ r.growth_rate # 0
              THEN <<r.growth_rate>> ELSE <<>>)
                 \o GrowthRatesOf(Tail(revenue_data))

\* variant: the empty-series guard is missing and latest_revenue falls back to 0
AnalyzeRevenuePatternsUnguarded(revenue_data) ==
    LET latest_revenue == IF revenue_data # <<>>
                          THEN revenue_data[Len(revenue_data)].revenue ELSE 0
        growth_rates   == GrowthRatesOf(revenue_data)
    IN  [trend |-> IF SumSeq(growth_rates) > 0 THEN "growing" ELSE "declining",
         avg_growth_rate |->
             IF growth_rates # <<>>
             THEN [num |-> SumSeq(growth_rates), den |-> Len(growth_rates)]
             ELSE [num |-> 0, den |-> 1],
         seasonality |-> DetectSeasonality(revenue_data),
         revenue_stability |->
             IF \A i \in 1..Len(growth_rates) : Abs(growth_rates[i]) < 20
             THEN "stable" ELSE "volatile",
         current_mrr |-> latest_revenue]

\* variant: a zero sum of growth rates counts as growing
AnalyzeRevenuePatternsNonNegative(revenue_data) ==
    IF revenue_data = <<>> THEN [status |-> "no_data"]
    ELSE LET latest_revenue == revenue_data[Len(revenue_data)].revenue
             growth_rates   == GrowthRatesOf(revenue_data)
         IN  [trend |-> IF SumSeq(growth_rates) >= 0 THEN "growing" ELSE "declining",
              avg_growth_rate |->
                  IF growth_rates # <<>>
                  THEN [num |-> SumSeq(growth_rates), den |-> Len(growth_rates)]
                  ELSE [num |-> 0, den |-> 1],
              seasonality |-> DetectSeasonality(revenue_data),
              revenue_stability |->
                  IF \A i \in 1..Len(growth_rates) : Abs(growth_rates[i]) < 20
                  THEN "stable" ELSE "volatile",
              current_mrr |-> latest_revenue]

\* variant: a growth rate of exactly 20 or -20 still counts as stable
AnalyzeRevenuePatternsInclusive(revenue_data) ==
    IF revenue_data = <<>> THEN [status |-> "no_data"]
    ELSE LET latest_revenue == revenue_data[Len(revenue_data)].revenue
             growth_rates   == GrowthRatesOf(revenue_data)
         IN  [trend |-> IF SumSeq(growth_rates) > 0 THEN "growing" ELSE "declining",
              avg_growth_rate |->
                  IF growth_rates # <<>>
                  THEN [num |-> SumSeq(growth_rates), den |-> Len(growth_rates)]
                  ELSE [num |-> 0, den |-> 1],
              seasonality |-> DetectSeasonality(revenue_data),
              revenue_stability |->
                  IF \A i \in 1..Len(growth_rates) : Abs(growth_rates[i]) <= 20
                  THEN "stable" ELSE "volatile",
              current_mrr |-> latest_revenue]

\* variant: the revenue of the first entry is taken as current_mrr
AnalyzeRevenuePatternsFirst(revenue_data) ==
    IF revenue_data = <<>> THEN [status |-> "no_data"]
    ELSE LET latest_revenue == revenue_data[1].revenue
             growth_rates   == GrowthRatesOf(revenue_data)
         IN  [trend |-> IF SumSeq(growth_rates) > 0 THEN "growing" ELSE "declining",
              avg_growth_rate |->
                  IF growth_rates # <<>>
                  THEN [num |-> SumSeq(growth_rates), den |-> Len(growth_rates)]
                  ELSE [num |-> 0, den |-> 1],
              seasonality |-> DetectSeasonality(revenue_data),
              revenue_stability |->
                  IF \A i \in 1..Len(growth_rates) : Abs(growth_rates[i]) < 20
                  THEN "stable" ELSE "volatile",
              current_mrr |-> latest_revenue]

\* variant: a series without any usable growth rate is reported as no_data
AnalyzeRevenuePatternsNoRates(revenue_data) ==
    IF revenue_data = <<>> \/ GrowthRatesOf(revenue_data) = <<>>
    THEN [status |-> "no_data"]
    ELSE LET latest_revenue == revenue_data[Len(revenue_data)].revenue
             growth_rates   == GrowthRatesOf(revenue_data)
         IN  [trend |-> IF SumSeq(growth_rates) > 0 THEN "growing" ELSE "declining",
              avg_growth_rate |->
                  [num |-> SumSeq(growth_rates), den |-> Len(growth_rates)],
              seasonality |-> DetectSeasonality(revenue_data),
              revenue_stability |->
                  IF \A i \in 1..Len(growth_rates) : Abs(growth_rates[i]) < 20
                  THEN "stable" ELSE "volatile",
              current_mrr |-> latest_revenue]

AnalyzeRevenuePatterns(revenue_data) ==
    IF revenue_data = <<>> THEN [status |-> "no_data"]
    ELSE LET latest_revenue == revenue_data[Len(revenue_data)].revenue
             growth_rates   == GrowthRatesOf(revenue_data)
         IN  [trend |-> IF SumSeq(growth_rates) > 0 THEN "growing" ELSE "declining",
              avg_growth_rate |->
                  IF growth_rates # <<>>
                  THEN [num |-> SumSeq(growth_rates), den |-> Len(growth_rates)]
                  ELSE [num |-> 0, den |-> 1],
              seasonality |-> DetectSeasonality(revenue_data),
              revenue_stability |->
                  IF \A i \in 1..Len(growth_rates) : Abs(growth_rates[i]) < 20
                  THEN "stable" ELSE "volatile",
              current_mrr |-> latest_revenue]

AnalyzeDevPatterns(dev_data) ==
    IF DOMAIN dev_data = {} THEN [status |-> "no_data"]
    ELSE [activity_level |-> CategorizeActivity(Get(dev_data, "productivity_score", 0)),
          pr_efficiency |-> IF Get(dev_data, "avg_pr_merge_time", 0) < 2
                            THEN "efficient" ELSE "needs_improvement",
          most_active_day |-> DayName(Get(dev_data, "most_active_day", 0)),
          most_active_hour |-> Get(dev_data, "most_active_hour", 0),
          collaboration_style |-> IF Get(dev_data, "total_prs", 0) > 10
                                  THEN "active" ELSE "passive"]

AnalyzeCustomerPatterns(customer_data) ==
    IF DOMAIN customer_data = {} THEN [status |-> "no_data"]
    ELSE [customer_value |-> CategorizeLtv(Get(customer_data, "lifetime_value", 0)),
          engagement |-> Get(customer_data, "engagement_level", "unknown"),
          purchase_frequency |-> IF Get(customer_data, "total_invoices", 0) > 10
                                 THEN "frequent" ELSE "occasional",
          cross_platform |-> Has(customer_data, "stripe_customer_id")
                             /\ Has(customer_data, "shopify_customer_id")]

AnalyzeWebsitePatterns(website_data) ==
    IF website_data = <<>> THEN [status |-> "no_data"]
    ELSE LET n == Len(website_data)
             bounce_rates == [i \in 1..n |-> website_data[i].bounce_rate]
         IN  [traffic_trend |-> DetectTrend([i \in 1..n |-> website_data[i].daily_users]),
              engagement_quality |-> IF SumSeq(bounce_rates) < 50 * n THEN "high" ELSE "low",
              user_retention |-> IF \E i \in 1..n : website_data[i].sessions_per_user > 15
                                 THEN "good" ELSE "needs_work",
              growth_phase |-> CategorizeGrowth(website_data)]

\* d['daily_users'] and the other subscripts raise KeyError on a row without the key
WebsiteKeys == {"daily_users", "bounce_rate", "sessions_per_user", "new_users", "users"}

AnalyzeRaises(data) ==
    \/ data.revenue # <<>> /\ ~Has(data.revenue[Len(data.revenue)], "revenue")
    \/ \E i \in 1..Len(data.website) : ~(WebsiteKeys \subseteq DOMAIN data.website[i])

\* variant: the website rows are read from a buffer that still holds the
\* rows of the previous call
AnalyzePatternsOfStale(data) ==
    [revenue_patterns     |-> AnalyzeRevenuePatterns(data.revenue),
     development_patterns |-> AnalyzeDevPatterns(data.developer),
     customer_patterns    |-> AnalyzeCustomerPatterns(data.customer),
     website_patterns     |->
         IF classified # <<>>
         THEN AnalyzeWebsitePatterns(classified[Len(classified)].user_data.website)
         ELSE AnalyzeWebsitePatterns(data.website)]

AnalyzePatternsOf(data) ==
    [revenue_patterns     |-> AnalyzeRevenuePatterns(data.revenue),
     development_patterns |-> AnalyzeDevPatterns(data.developer),
     customer_patterns    |-> AnalyzeCustomerPatterns(data.customer),
     website_patterns     |-> AnalyzeWebsitePatterns(data.website)]

-----------------------------------------------------------------------------
(* User type and the three scores *)

DetermineUserType(p) ==
    LET dev_score == Get(p.development_patterns, "productivity_score", 0)
        revenue   == Get(p.revenue_patterns, "current_mrr", 0)
    IN  IF dev_score > 50 /\ revenue > 1000 THEN "technical_founder"
        ELSE IF dev_score > 50 THEN "developer"
        ELSE IF revenue > 5000 THEN "enterprise_customer"
        ELSE IF revenue > 500 THEN "business_customer"
        ELSE "standard_user"

Max(a, b) == IF a > b THEN a ELSE b

Min(a, b) == IF a < b THEN a ELSE b

\* variant: active and very_active each add their own bonus and the result is
\* returned unclamped
CalculateHealthScoreUnclamped(p) ==
    LET trend      == Get(p.revenue_patterns, "trend", "None")
        engagement == Get(p.customer_patterns, "engagement", "None")
        activity   == Get(p.development_patterns, "activity_level", "None")
    IN  50 + (IF trend = "growing" THEN 20
              ELSE IF trend = "declining" THEN -20 ELSE 0)
           + (IF engagement = "high" THEN 15
              ELSE IF engagement = "low" THEN -15 ELSE 0)
           + (IF activity \in {"active", "very_active"} THEN 15 ELSE 0)
           + (IF activity = "very_active" THEN 15 ELSE 0)

\* variant: the score is kept on the analyzer and carried over to the next account
CalculateHealthScoreCarried(p) ==
    LET trend      == Get(p.revenue_patterns, "trend", "None")
        engagement == Get(p.customer_patterns, "engagement", "None")
        activity   == Get(p.development_patterns, "activity_level", "None")
        s0 == IF table = <<>> THEN 50 ELSE table[Len(table)].insights.health_score
        s1 == s0 + (IF trend = "growing" THEN 20
                    ELSE IF trend = "declining" THEN -20 ELSE 0)
        s2 == s1 + (IF engagement = "high" THEN 15
                    ELSE IF engagement = "low" THEN -15 ELSE 0)
        s3 == s2 + (IF activity \in {"active", "very_active"} THEN 15 ELSE 0)
    IN  Max(0, Min(100, s3))

\* variant: the revenue penalty is taken by else instead of elif == 'declining'
CalculateHealthScoreElse(p) ==
    LET trend      == Get(p.revenue_patterns, "trend", "None")
        engagement == Get(p.customer_patterns, "engagement", "None")
        activity   == Get(p.development_patterns, "activity_level", "None")
        s1 == 50 + (IF trend = "growing" THEN 20 ELSE -20)
        s2 == s1 + (IF engagement = "high" THEN 15
                    ELSE IF engagement = "low" THEN -15 ELSE 0)
        s3 == s2 + (IF activity \in {"active", "very_active"} THEN 15 ELSE 0)
    IN  Max(0, Min(100, s3))

\* variant: the activity bonus is given to very_active accounts only
CalculateHealthScoreVeryActive(p) ==
    LET trend      == Get(p.revenue_patterns, "trend", "None")
        engagement == Get(p.customer_patterns, "engagement", "None")
        activity   == Get(p.development_patterns, "activity_level", "None")
        s1 == 50 + (IF trend = "growing" THEN 20
                    ELSE IF trend = "declining" THEN -20 ELSE 0)
        s2 == s1 + (IF engagement = "high" THEN 15
                    ELSE IF engagement = "low" THEN -15 ELSE 0)
        s3 == s2 + (IF activity = "very_active" THEN 15 ELSE 0)
    IN  Max(0, Min(100, s3))

\* variant: low customer engagement costs 20 points
CalculateHealthScoreHarsh(p) ==
    LET trend      == Get(p.revenue_patterns, "trend", "None")
        engagement == Get(p.customer_patterns, "engagement", "None")
        activity   == Get(p.development_patterns, "activity_level", "None")
        s1 == 50 + (IF trend = "growing" THEN 20
                    ELSE IF trend = "declining" THEN -20 ELSE 0)
        s2 == s1 + (IF engagement = "high" THEN 15
                    ELSE IF engagement = "low" THEN -20 ELSE 0)
        s3 == s2 + (IF activity \in {"active", "very_active"} THEN 15 ELSE 0)
    IN  Max(0, Min(100, s3))

\* variant: high customer engagement earns 20 points
HealthSumHighBonus(p) ==
    LET trend      == Get(p.revenue_patterns, "trend", "None")
        engagement == Get(p.customer_patterns, "engagement", "None")
        activity   == Get(p.development_patterns, "activity_level", "None")
        s1 == 50 + (IF trend = "growing" THEN 20
                    ELSE IF trend = "declining" THEN -20 ELSE 0)
        s2 == s1 + (IF engagement = "high" THEN 20
                    ELSE IF engagement = "low" THEN -15 ELSE 0)
        s3 == s2 + (IF activity \in {"active", "very_active"} THEN 15 ELSE 0)
    IN  s3

\* the value of score before the clamp of the return statement
HealthSum(p) ==
    LET trend      == Get(p.revenue_patterns, "trend", "None")
        engagement == Get(p.customer_patterns, "engagement", "None")
        activity   == Get(p.development_patterns, "activity_level", "None")
        s1 == 50 + (IF trend = "growing" THEN 20
                    ELSE IF trend = "declining" THEN -20 ELSE 0)
        s2 == s1 + (IF engagement = "high" THEN 15
                    ELSE IF engagement = "low" THEN -15 ELSE 0)
        s3 == s2 + (IF activity \in {"active", "very_active"} THEN 15 ELSE 0)
    IN  s3

CalculateHealthScore(p) == Max(0, Min(100, HealthSum(p)))

\* variant: low website engagement weighs as much as the other two factors
RiskFactorsEqualWeights(p) ==
    (IF Get(p.revenue_patterns, "trend", "None") = "declining" THEN 2 ELSE 0)
    + (IF Get(p.customer_patterns, "engagement", "None") = "low" THEN 2 ELSE 0)
    + (IF Get(p.website_patterns, "engagement_quality", "None") = "low" THEN 2 ELSE 0)

RiskFactors(p) ==
    (IF Get(p.revenue_patterns, "trend", "None") = "declining" THEN 2 ELSE 0)
    + (IF Get(p.customer_patterns, "engagement", "None") = "low" THEN 2 ELSE 0)
    + (IF Get(p.website_patterns, "engagement_quality", "None") = "low" THEN 1 ELSE 0)

\* variant: strict comparisons on the counter
RiskTierStrict(risk_factors) ==
    IF risk_factors > 4 THEN "high"
    ELSE IF risk_factors > 2 THEN "medium"
    ELSE "low"

RiskTier(risk_factors) ==
    IF risk_factors >= 4 THEN "high"
    ELSE IF risk_factors >= 2 THEN "medium"
    ELSE "low"

CalculateChurnRisk(p) == RiskTier(RiskFactors(p))

\* variant: the website bonus is 20 and the cap is missing
CalculateGrowthPotentialUncapped(p) ==
    50 + (IF Get(p.revenue_patterns, "trend", "None") = "growing" THEN 20 ELSE 0)
       + (IF Get(p.development_patterns, "activity_level", "None") = "very_active"
          THEN 20 ELSE 0)
       + (IF Get(p.website_patterns, "traffic_trend", "None") = "growing" THEN 20 ELSE 0)

\* variant: the development bonus is given to active accounts as well
CalculateGrowthPotentialActive(p) ==
    LET s1 == 50 + (IF Get(p.revenue_patterns, "trend", "None") = "growing"
                    THEN 20 ELSE 0)
        s2 == s1 + (IF Get(p.development_patterns, "activity_level", "None")
                           \in {"active", "very_active"}
                    THEN 20 ELSE 0)
        s3 == s2 + (IF Get(p.website_patterns, "traffic_trend", "None") = "growing"
                    THEN 10 ELSE 0)
    IN  Min(100, s3)

\* the value of score before the cap of the return statement
GrowthSum(p) ==
    LET s1 == 50 + (IF Get(p.revenue_patterns, "trend", "None") = "growing"
                    THEN 20 ELSE 0)
        s2 == s1 + (IF Get(p.development_patterns, "activity_level", "None") = "very_active"
                    THEN 20 ELSE 0)
        s3 == s2 + (IF Get(p.website_patterns, "traffic_trend", "None") = "growing"
                    THEN 10 ELSE 0)
    IN  s3

CalculateGrowthPotential(p) == Min(100, GrowthSum(p))

-----------------------------------------------------------------------------
(* Recommendations *)

RevenueRecommendation ==
    [type |-> "revenue", priority |-> "high",
     action |-> "Schedule customer success call",
     reason |-> "Health score below threshold",
     impact |-> "Reduce churn risk by 40%"]

DevelopmentRecommendation ==
    [type |-> "development", priority |-> "medium",
     action |-> "Suggest code review automation",
     reason |-> "High PR volume detected",
     impact |-> "Save 5 hours per week"]

GrowthRecommendation ==
    [type |-> "growth", priority |-> "high",
     action |-> "Offer premium features",
     reason |-> "High engagement and growth potential",
     impact |-> "Potential 30% revenue increase"]

\* variant: the growth rule is evaluated before the development rule
CreateRecommendationsGrowthFirst(ins) ==
    LET r1 == IF ins.health_score < 70 THEN <<RevenueRecommendation>> ELSE <<>>
        r2 == IF ins.growth_potential > 80
              THEN r1 \o <<GrowthRecommendation>> ELSE r1
        r3 == IF Get(ins, "user_type", "None") = "developer"
              THEN r2 \o <<DevelopmentRecommendation>> ELSE r2
    IN  r3

CreateRecommendationsOf(ins) ==
    LET r1 == IF ins.health_score < 70 THEN <<RevenueRecommendation>> ELSE <<>>
        r2 == IF Get(ins, "user_type", "None") = "developer"
              THEN r1 \o <<DevelopmentRecommendation>> ELSE r1
        r3 == IF ins.growth_potential > 80
              THEN r2 \o <<GrowthRecommendation>> ELSE r2
    IN  r3

HighPriority(recs) == SelectSeq(recs, LAMBDA r : r.priority = "high")

-----------------------------------------------------------------------------
(* State machine: run_daily_analysis driving analyze_user_workflow *)

\* content of the chat completion; opaque to the scorer
AiTexts == {"analysis_a", "analysis_b"}

\* the snapshots of the spec's scenarios A, B and C, an account without any
\* data, and one whose website rows are malformed
ScenarioA ==
    [customer  |-> [lifetime_value |-> 500, engagement_level |-> "high",
                    total_invoices |-> 3],
     developer |-> [productivity_score |-> 60, avg_pr_merge_time |-> 1,
                    most_active_day |-> 2, most_active_hour |-> 10, total_prs |-> 12],
     revenue   |-> <<[revenue |-> 500, growth_rate |-> 5],
                     [revenue |-> 500, growth_rate |-> 8]>>,
     website   |-> <<>>]

ScenarioB ==
    [customer  |-> [lifetime_value |-> 500, engagement_level |-> "low",
                    total_invoices |-> 3],
     developer |-> EmptyDict,
     revenue   |-> <<[revenue |-> 5001, growth_rate |-> -30]>>,
     website   |-> <<[daily_users |-> 100, bounce_rate |-> 60, sessions_per_user |-> 10,
                      new_users |-> 80, users |-> 100]>>]

ScenarioC ==
    [customer  |-> EmptyDict,
     developer |-> [productivity_score |-> 120, avg_pr_merge_time |-> 1,
                    most_active_day |-> 2, most_active_hour |-> 10, total_prs |-> 12],
     revenue   |-> <<[revenue |-> 5001, growth_rate |-> 8]>>,
     website   |-> <<>>]

NoDataSnapshot ==
    [customer |-> EmptyDict, developer |-> EmptyDict, revenue |-> <<>>, website |-> <<>>]

BadSnapshot ==
    [customer |-> EmptyDict, developer |-> EmptyDict, revenue |-> <<>>,
     website |-> <<BadWebsiteRow>>]

BatchSnapshots == {ScenarioA, ScenarioB, ScenarioC, NoDataSnapshot, BadSnapshot}

CurrentUser == ActiveUsers[idx]

Frame(ud, p, ins, recs) ==
    /\ user_data' = ud
    /\ patterns' = p
    /\ insights' = ins
    /\ recommendations' = recs

\* variant: no handler around the loop body, the exception ends the batch
RaiseAborts(e) ==
    /\ log' = Append(log, [user_id |-> CurrentUser, msg |-> "Error analyzing user", e |-> e])
    /\ idx' = idx
    /\ pc' = "done"
    /\ Frame(EmptyDict, EmptyDict, EmptyDict, <<>>)
    /\ UNCHANGED <<table, alerts, classified, clock>>

\* variant: the handler gives a failed account one more try
RaiseRetriesOnce(e) ==
    /\ log' = Append(log, [user_id |-> CurrentUser, msg |-> "Error analyzing user", e |-> e])
    /\ idx' = IF \E k \in 1..Len(log) :
                    log[k] = [user_id |-> CurrentUser, msg |-> "Error analyzing user",
                              e |-> e]
              THEN idx + 1 ELSE idx
    /\ pc' = "loop"
    /\ Frame(EmptyDict, EmptyDict, EmptyDict, <<>>)
    /\ UNCHANGED <<table, alerts, classified, clock>>

\* variant: the handler stores what has been computed so far
RaiseStoresPartial(e) ==
    /\ log' = Append(log, [user_id |-> CurrentUser, msg |-> "Error analyzing user", e |-> e])
    /\ idx' = idx + 1
    /\ pc' = "loop"
    /\ Frame(EmptyDict, EmptyDict, EmptyDict, <<>>)
    /\ table' = Append(table, [user_id |-> CurrentUser, insights |-> insights,
                               recommendations |-> recommendations,
                               created_at |-> clock])
    /\ UNCHANGED <<alerts, classified, clock>>

\* an exception leaves analyze_user_workflow or send_alert: the handler of
\* run_daily_analysis prints it and continues with the next user
Raise(e) ==
    /\ log' = Append(log, [user_id |-> CurrentUser, msg |-> "Error analyzing user", e |-> e])
    /\ idx' = idx + 1
    /\ pc' = "loop"
    /\ Frame(EmptyDict, EmptyDict, EmptyDict, <<>>)
    /\ UNCHANGED <<table, alerts, classified, clock>>

Init ==
    /\ idx = 1
    /\ pc = "loop"
    /\ user_data = EmptyDict
    /\ patterns = EmptyDict
    /\ insights = EmptyDict
    /\ recommendations = <<>>
    /\ table = <<>>
    /\ alerts = <<>>
    /\ log = <<>>
    /\ classified = <<>>
    /\ clock = 0

BeginUser ==
    /\ pc = "loop"
    /\ idx <= Len(ActiveUsers)
    /\ log' = Append(log, [user_id |-> CurrentUser, msg |-> "Analyzing user"])
    /\ pc' = "fetch"
    /\ UNCHANGED <<idx, user_data, patterns, insights, recommendations, table, alerts,
                   classified, clock>>

FinishBatch ==
    /\ pc = "loop"
    /\ idx > Len(ActiveUsers)
    /\ log' = Append(log, [msg |-> "Daily analysis complete"])
    /\ pc' = "done"
    /\ UNCHANGED <<idx, user_data, patterns, insights, recommendations, table, alerts,
                   classified, clock>>

FetchUserData(rows) ==
    /\ pc = "fetch"
    /\ \E snapshot \in rows : user_data' = snapshot
    /\ pc' = "patterns"
    /\ UNCHANGED <<idx, patterns, insights, recommendations, table, alerts, log,
                   classified, clock>>

FetchUserDataRaise ==
    /\ pc = "fetch"
    /\ Raise("fetch")

AnalyzePatterns ==
    /\ pc = "patterns"
    /\ ~AnalyzeRaises(user_data)
    /\ patterns' = AnalyzePatternsOf(user_data)
    /\ classified' = Append(classified, [user_id |-> CurrentUser, user_data |-> user_data,
                                         patterns |-> patterns'])
    /\ pc' = "insights"
    /\ UNCHANGED <<idx, user_data, insights, recommendations, table, alerts, log, clock>>

AnalyzePatternsRaise ==
    /\ pc = "patterns"
    /\ AnalyzeRaises(user_data)
    /\ Raise("patterns")

GenerateAiInsights ==
    /\ pc = "insights"
    /\ \E ai_insights \in AiTexts :
           insights' = [ai_analysis      |-> ai_insights,
                        user_type        |-> DetermineUserType(patterns),
                        health_score     |-> CalculateHealthScore(patterns),
                        churn_risk       |-> CalculateChurnRisk(patterns),
                        growth_potential |-> CalculateGrowthPotential(patterns)]
    /\ pc' = "recommend"
    /\ UNCHANGED <<idx, user_data, patterns, recommendations, table, alerts, log,
                   classified, clock>>

\* variant: a failed completion is logged and the pipeline goes on to the store
\* stage
GenerateAiInsightsRaiseSwallowed ==
    /\ pc = "insights"
    /\ log' = Append(log, [user_id |-> CurrentUser, msg |-> "Error analyzing user",
                           e |-> "insights"])
    /\ pc' = "store"
    /\ UNCHANGED <<idx, user_data, patterns, insights, recommendations, table, alerts,
                   classified, clock>>

GenerateAiInsightsRaise ==
    /\ pc = "insights"
    /\ Raise("insights")

CreateRecommendations ==
    /\ pc = "recommend"
    /\ recommendations' = CreateRecommendationsOf(insights)
    /\ pc' = "store"
    /\ UNCHANGED <<idx, user_data, patterns, insights, table, alerts, log,
                   classified, clock>>

\* timedelta(days=7) in seconds
SevenDays == 604800

\* created_at and expires_at come from two successive datetime.now() calls
StoreAnalysis ==
    /\ pc = "store"
    /\ \E elapsed \in 0..MaxElapsed :
           /\ table' = Append(table, [user_id |-> CurrentUser, insights |-> insights,
                                      recommendations |-> recommendations,
                                      created_at |-> clock,
                                      expires_at |-> clock + elapsed + SevenDays])
           /\ clock' = clock + elapsed
    /\ pc' = "alert"
    /\ UNCHANGED <<idx, user_data, patterns, insights, recommendations, alerts, log,
                   classified>>

StoreAnalysisRaise ==
    /\ pc = "store"
    /\ Raise("store")

Complete ==
    /\ log' = Append(log, [user_id |-> CurrentUser, msg |-> "Analysis complete"])
    /\ idx' = idx + 1
    /\ pc' = "loop"
    /\ Frame(EmptyDict, EmptyDict, EmptyDict, <<>>)
    /\ UNCHANGED <<table, classified, clock>>

SendAlert ==
    /\ pc = "alert"
    /\ HighPriority(recommendations) # <<>>
    /\ alerts' = Append(alerts, [user_id |-> CurrentUser,
                                 recommendations |-> HighPriority(recommendations)])
    /\ Complete

SendAlertRaise ==
    /\ pc = "alert"
    /\ HighPriority(recommendations) # <<>>
    /\ Raise("alert")

\* variant: send_alert is called without the test of the list
NoAlertSendsEmpty ==
    /\ pc = "alert"
    /\ HighPriority(recommendations) = <<>>
    /\ alerts' = Append(alerts, [user_id |-> CurrentUser, recommendations |-> <<>>])
    /\ Complete

NoAlert ==
    /\ pc = "alert"
    /\ HighPriority(recommendations) = <<>>
    /\ alerts' = alerts
    /\ Complete

Next ==
    \/ BeginUser
    \/ FinishBatch
    \/ FetchUserData(BatchSnapshots)
    \/ FetchUserDataRaise
    \/ AnalyzePatterns
    \/ AnalyzePatternsRaise
    \/ GenerateAiInsights
    \/ GenerateAiInsightsRaise
    \/ CreateRecommendations
    \/ StoreAnalysis
    \/ StoreAnalysisRaise
    \/ SendAlert
    \/ SendAlertRaise
    \/ NoAlert

Spec == Init /\ [][Next]_vars

\* the loop is sequential and every awaited call returns or raises
SpecFair == Init /\ [][Next]_vars /\ WF_vars(Next)

(* One call of analyze_user_workflow up to the recommendations, over every    *)
(* snapshot of the input domain.                                            *)
InitScore ==
    /\ idx = 1
    /\ pc = "fetch"
    /\ user_data = EmptyDict
    /\ patterns = EmptyDict
    /\ insights = EmptyDict
    /\ recommendations = <<>>
    /\ table = <<>>
    /\ alerts = <<>>
    /\ log = <<[user_id |-> ActiveUsers[1], msg |-> "Analyzing user"]>>
    /\ classified = <<>>
    /\ clock = 0

NextScore ==
    \/ FetchUserData(Snapshots)
    \/ AnalyzePatterns
    \/ AnalyzePatternsRaise
    \/ GenerateAiInsights
    \/ CreateRecommendations

SpecScore == InitScore /\ [][NextScore]_vars

(* _create_recommendations as a function of its argument: every insights     *)
(* dict of the declared shape, whether or not the scorer can produce it.      *)
UserTypes ==
    {"technical_founder", "developer", "enterprise_customer", "business_customer",
     "standard_user"}

InsightInputs ==
    [ai_analysis      : {"analysis_a"},
     user_type        : UserTypes,
     health_score     : {15, 50, 69, 70, 100},
     churn_risk       : {"low", "medium", "high"},
     growth_potential : {50, 80, 81, 100}]

InitRec ==
    /\ idx = 1
    /\ pc = "recommend"
    /\ user_data = EmptyDict
    /\ patterns = EmptyDict
    /\ insights \in InsightInputs
    /\ recommendations = <<>>
    /\ table = <<>>
    /\ alerts = <<>>
    /\ log = <<[user_id |-> ActiveUsers[1], msg |-> "Analyzing user"]>>
    /\ classified = <<>>
    /\ clock = 0

NextRec == CreateRecommendations

SpecRec == InitRec /\ [][NextRec]_vars

(* _analyze_revenue_patterns and the user type over revenue series with     *)
(* growth rates around the stability threshold; the other groups are empty. *)
RevenueCases ==
    {[revenue |-> 501, growth_rate |-> g] : g \in {-30, -20, -19, 0, 5, 19, 20}}
        \cup {[revenue |-> 500], [revenue |-> 5000], [revenue |-> 5001, growth_rate |-> 5]}

InitRevenue ==
    /\ idx = 1
    /\ pc = "patterns"
    /\ user_data \in [customer : {EmptyDict}, developer : {EmptyDict},
                      revenue : SeqsUpTo(RevenueCases, MaxRevLen), website : {<<>>}]
    /\ patterns = EmptyDict
    /\ insights = EmptyDict
    /\ recommendations = <<>>
    /\ table = <<>>
    /\ alerts = <<>>
    /\ log = <<[user_id |-> ActiveUsers[1], msg |-> "Analyzing user"]>>
    /\ classified = <<>>
    /\ clock = 0

NextRevenue ==
    \/ AnalyzePatterns
    \/ GenerateAiInsights

SpecRevenue == InitRevenue /\ [][NextRevenue]_vars

(* _analyze_dev_patterns over developer rows with productivity scores at the *)
(* band limits and day numbers in and out of range; the other groups are     *)
(* empty.                                                                    *)
ScoreCases == {0, 20, 21, 50, 51, 100, 101}

DayCases == {-1, 0, 1, 2, 3, 4, 5, 6, 7, 9}

DeveloperCases ==
    {[total_prs |-> 3]}
        \cup {[total_prs |-> 3, productivity_score |-> p] : p \in ScoreCases}
        \cup {[total_prs |-> 3, most_active_day |-> d] : d \in DayCases}
        \cup {[total_prs |-> 3, productivity_score |-> p, most_active_day |-> d]
                 : p \in ScoreCases, d \in DayCases}

InitDev ==
    /\ idx = 1
    /\ pc = "patterns"
    /\ user_data \in [customer : {EmptyDict}, developer : DeveloperCases \cup {EmptyDict},
                      revenue : {<<>>}, website : {<<>>}]
    /\ patterns = EmptyDict
    /\ insights = EmptyDict
    /\ recommendations = <<>>
    /\ table = <<>>
    /\ alerts = <<>>
    /\ log = <<[user_id |-> ActiveUsers[1], msg |-> "Analyzing user"]>>
    /\ classified = <<>>
    /\ clock = 0

NextDev == AnalyzePatterns

SpecDev == InitDev /\ [][NextDev]_vars

(* _analyze_customer_patterns over customer rows with lifetime values at the *)
(* tier limits, with and without the optional columns; the other groups are  *)
(* empty.                                                                    *)
LtvCases == {-5, 0, 100, 101, 1000, 1001, 10000, 10001}

CustomerCases ==
    {invoices @@ value @@ level @@ ids :
        invoices \in {[total_invoices |-> 3], [total_invoices |-> 11]},
        value    \in {EmptyDict} \cup {[lifetime_value |-> v] : v \in LtvCases},
        level    \in {EmptyDict, [engagement_level |-> "high"],
                      [engagement_level |-> "low"]},
        ids      \in {EmptyDict, [stripe_customer_id |-> "cus_1",
                                  shopify_customer_id |-> "shop_1"]}}

InitCustomer ==
    /\ idx = 1
    /\ pc = "patterns"
    /\ user_data \in [customer : CustomerCases \cup {EmptyDict}, developer : {EmptyDict},
                      revenue : {<<>>}, website : {<<>>}]
    /\ patterns = EmptyDict
    /\ insights = EmptyDict
    /\ recommendations = <<>>
    /\ table = <<>>
    /\ alerts = <<>>
    /\ log = <<[user_id |-> ActiveUsers[1], msg |-> "Analyzing user"]>>
    /\ classified = <<>>
    /\ clock = 0

NextCustomer == AnalyzePatterns

SpecCustomer == InitCustomer /\ [][NextCustomer]_vars

(* _detect_trend over website series of up to MaxTrendLen days whose         *)
(* daily_users lie within ten percent of each other; the other columns are  *)
(* fixed and the other groups are empty.                                    *)
TrendCases == {15, 16, 17}

TrendRows ==
    {[daily_users |-> u, bounce_rate |-> 40, sessions_per_user |-> 20,
      new_users |-> 30, users |-> 100] : u \in TrendCases}

InitTrend ==
    /\ idx = 1
    /\ pc = "patterns"
    /\ user_data \in [customer : {EmptyDict}, developer : {EmptyDict},
                      revenue : {<<>>}, website : SeqsUpTo(TrendRows, MaxTrendLen)]
    /\ patterns = EmptyDict
    /\ insights = EmptyDict
    /\ recommendations = <<>>
    /\ table = <<>>
    /\ alerts = <<>>
    /\ log = <<[user_id |-> ActiveUsers[1], msg |-> "Analyzing user"]>>
    /\ classified = <<>>
    /\ clock = 0

NextTrend ==
    \/ AnalyzePatterns
    \/ GenerateAiInsights

SpecTrend == InitTrend /\ [][NextTrend]_vars

(* _categorize_growth over website series whose new_users / users ratios     *)
(* lie around 0.3 and 0.7, with rows that have no users; the other columns   *)
(* are fixed and the other groups are empty.                                 *)
GrowthRows ==
    {[daily_users |-> 100, bounce_rate |-> 40, sessions_per_user |-> 20,
      new_users |-> k, users |-> 10] : k \in {0, 2, 3, 4, 7, 8, 10}}
        \cup {[daily_users |-> 100, bounce_rate |-> 40, sessions_per_user |-> 20,
               new_users |-> 5, users |-> u] : u \in {0, -3}}

InitGrowth ==
    /\ idx = 1
    /\ pc = "patterns"
    /\ user_data \in [customer : {EmptyDict}, developer : {EmptyDict},
                      revenue : {<<>>}, website : SeqsUpTo(GrowthRows, MaxWebLen)]
    /\ patterns = EmptyDict
    /\ insights = EmptyDict
    /\ recommendations = <<>>
    /\ table = <<>>
    /\ alerts = <<>>
    /\ log = <<[user_id |-> ActiveUsers[1], msg |-> "Analyzing user"]>>
    /\ classified = <<>>
    /\ clock = 0

NextGrowth == AnalyzePatterns

SpecGrowth == InitGrowth /\ [][NextGrowth]_vars

-----------------------------------------------------------------------------
(* Properties *)

\* the insights of the current account have been computed
Scored == Has(insights, "health_score")

Trend == Get(patterns.revenue_patterns, "trend", "None")

Engagement == Get(patterns.customer_patterns, "engagement", "None")

ActivityLevel == Get(patterns.development_patterns, "activity_level", "None")

TrafficTrend == Get(patterns.website_patterns, "traffic_trend", "None")

EngagementQuality == Get(patterns.website_patterns, "engagement_quality", "None")

Clamp(lo, hi, x) == IF x < lo THEN lo ELSE IF x > hi THEN hi ELSE x

\* C1: for every snapshot the health_score computed from the derived patterns
\* is an integer between 0 and 100.
C1_HealthScoreInRange == Scored => insights.health_score \in 0..100

C1_Witness ==
    /\ Scored
    /\ Trend = "growing" /\ Engagement = "high" /\ ActivityLevel = "very_active"
    /\ insights.health_score = 100

\* C2: for every snapshot the growth_potential is never below 0 and never
\* above 100.
C2_GrowthPotentialInRange ==
    Scored => insights.growth_potential >= 0 /\ insights.growth_potential <= 100

C2_Witness ==
    /\ Scored
    /\ Trend = "growing" /\ ActivityLevel = "very_active" /\ TrafficTrend = "growing"
    /\ insights.growth_potential = 100

ProductivityScore == Get(user_data.developer, "productivity_score", 0)

CurrentMrr ==
    IF user_data.revenue = <<>> THEN 0
    ELSE user_data.revenue[Len(user_data.revenue)].revenue

\* C3: the user type is the first match of: productivity_score > 50 and
\* mrr > 1000 -> technical_founder; productivity_score > 50 -> developer;
\* mrr > 5000 -> enterprise_customer; mrr > 500 -> business_customer;
\* otherwise standard_user.
C3_UserTypeFirstMatch ==
    Scored =>
        insights.user_type =
            IF ProductivityScore > 50 /\ CurrentMrr > 1000 THEN "technical_founder"
            ELSE IF ProductivityScore > 50 THEN "developer"
            ELSE IF CurrentMrr > 5000 THEN "enterprise_customer"
            ELSE IF CurrentMrr > 500 THEN "business_customer"
            ELSE "standard_user"

C4_ScenarioA ==
    /\ user_data.revenue # <<>>
    /\ \A i \in 1..Len(user_data.revenue) :
           /\ Has(user_data.revenue[i], "growth_rate")
           /\ user_data.revenue[i].growth_rate > 0
    /\ Get(user_data.customer, "engagement_level", "unknown") = "high"
    /\ ProductivityScore = 60

\* C4: health_score is 50, +20 for a growing and -20 for a declining revenue
\* trend, +15 for high and -15 for low customer engagement, +15 for an active
\* or very_active development level, clamped to [0,100]; positive growth
\* rates, engagement 'high' and productivity_score 60 give exactly 100.
C4_HealthScoreRule ==
    Scored =>
        /\ insights.health_score =
               Clamp(0, 100,
                     50 + (IF Trend = "growing" THEN 20 ELSE 0)
                        - (IF Trend = "declining" THEN 20 ELSE 0)
                        + (IF Engagement = "high" THEN 15 ELSE 0)
                        - (IF Engagement = "low" THEN 15 ELSE 0)
                        + (IF ActivityLevel = "active" \/ ActivityLevel = "very_active"
                           THEN 15 ELSE 0))
        /\ C4_ScenarioA => insights.health_score = 100

C4_Witness ==
    /\ Scored
    /\ C4_ScenarioA
    /\ Len(user_data.revenue) = 2
    /\ insights.health_score = 100

C5_Counter ==
    (IF Trend = "declining" THEN 2 ELSE 0)
    + (IF Engagement = "low" THEN 2 ELSE 0)
    + (IF EngagementQuality = "low" THEN 1 ELSE 0)

C5_Rank(tier) == CASE tier = "low" -> 0 [] tier = "medium" -> 1 [] tier = "high" -> 2

C5_ScenarioB ==
    /\ Len(user_data.revenue) = 1
    /\ Get(user_data.revenue[1], "growth_rate", 0) = -30
    /\ Get(user_data.customer, "engagement_level", "unknown") = "low"
    /\ user_data.website # <<>>
    /\ SumSeq([i \in 1..Len(user_data.website) |-> user_data.website[i].bounce_rate])
           >= 50 * Len(user_data.website)

\* C5: churn_risk is the tier of a counter (+2 declining revenue, +2 low
\* customer engagement, +1 low website engagement_quality): 0-1 low, 2-3
\* medium, >= 4 high; the tier never decreases when the counter grows; one
\* growth_rate of -30, engagement 'low' and mean bounce rate >= 50 give 'high'.
C5_ChurnRiskRule ==
    /\ Scored =>
        /\ insights.churn_risk =
               (IF C5_Counter \in 0..1 THEN "low"
                ELSE IF C5_Counter \in 2..3 THEN "medium"
                ELSE "high")
        /\ RiskFactors(patterns) = C5_Counter
        /\ C5_ScenarioB => insights.churn_risk = "high"
    /\ \A a, b \in 0..5 : a <= b => C5_Rank(RiskTier(a)) <= C5_Rank(RiskTier(b))

C5_Witness ==
    /\ Scored
    /\ C5_ScenarioB
    /\ C5_Counter = 5
    /\ insights.churn_risk = "high"

C6_ScenarioC ==
    /\ ProductivityScore = 120
    /\ Trend = "growing"
    /\ TrafficTrend # "growing"

\* C6: growth_potential is 50, +20 for a growing revenue trend, +20 for a
\* very_active development level, +10 for a growing website traffic trend,
\* capped at 100; productivity_score 120 with a growing revenue trend and no
\* growing website trend gives exactly 90.
C6_GrowthPotentialRule ==
    Scored =>
        /\ insights.growth_potential =
               Min(100, 50 + (IF Trend = "growing" THEN 20 ELSE 0)
                           + (IF ActivityLevel = "very_active" THEN 20 ELSE 0)
                           + (IF TrafficTrend = "growing" THEN 10 ELSE 0))
        /\ C6_ScenarioC => insights.growth_potential = 90

C6_Witness ==
    /\ Scored
    /\ C6_ScenarioC
    /\ insights.growth_potential = 90

C7_Kinds(recs) == [i \in 1..Len(recs) |-> <<recs[i].type, recs[i].priority>>]

\* C7: the recommendations are, in this order and with nothing else, the
\* high-priority 'revenue' one iff health_score < 70, the medium-priority
\* 'development' one iff user_type is developer, and the high-priority
\* 'growth' one iff growth_potential > 80.
C7_RecommendationRules ==
    pc = "store" =>
        C7_Kinds(recommendations) =
            (IF insights.health_score < 70 THEN << <<"revenue", "high">> >> ELSE <<>>)
            \o (IF insights.user_type = "developer"
                THEN << <<"development", "medium">> >> ELSE <<>>)
            \o (IF insights.growth_potential > 80
                THEN << <<"growth", "high">> >> ELSE <<>>)

C7_Witness ==
    /\ pc = "store"
    /\ insights.health_score < 70
    /\ insights.user_type = "developer"
    /\ insights.growth_potential > 80
    /\ Len(recommendations) = 3

UserIndex(u) == CHOOSE j \in 1..Len(ActiveUsers) : ActiveUsers[j] = u

C8_EntryAfter(u) ==
    IF UserIndex(u) < Len(ActiveUsers)
    THEN [user_id |-> ActiveUsers[UserIndex(u) + 1], msg |-> "Analyzing user"]
    ELSE [msg |-> "Daily analysis complete"]

\* C8: a failure while analysing one account is caught for that account and
\* the loop goes on with the next account: the batch ends only with the list
\* exhausted and every account of the list has been taken up.
C8_FailureDoesNotAbortBatch ==
    /\ \A k \in 1..Len(log) :
           (log[k].msg = "Error analyzing user" /\ k < Len(log))
               => log[k + 1] = C8_EntryAfter(log[k].user_id)
    /\ pc = "done" =>
           /\ idx > Len(ActiveUsers)
           /\ \A j \in 1..Len(ActiveUsers) :
                  \E k \in 1..Len(log) :
                      log[k] = [user_id |-> ActiveUsers[j], msg |-> "Analyzing user"]
    /\ pc # "done" => idx <= Len(ActiveUsers) \/ pc = "loop"

C8_Witness ==
    /\ pc = "done"
    /\ \E k \in 1..Len(log) :
           log[k] = [user_id |-> ActiveUsers[1], msg |-> "Error analyzing user",
                     e |-> "insights"]
    /\ \E k \in 1..Len(log) :
           log[k] = [user_id |-> ActiveUsers[2], msg |-> "Error analyzing user",
                     e |-> "patterns"]
    /\ \E k \in 1..Len(table) : table[k].user_id = ActiveUsers[3]

NoData == [status |-> "no_data"]

\* C9: each sub-classifier answers an empty input with the no_data status and
\* an empty input never makes the classification raise; a category in that
\* status adds nothing to health_score, to the churn counter or to
\* growth_potential.
C9_EmptyInputIsNeutral ==
    /\ pc = "patterns" /\ AnalyzeRaises(user_data) =>
           \E i \in 1..Len(user_data.website) :
               ~(WebsiteKeys \subseteq DOMAIN user_data.website[i])
    /\ pc = "patterns" /\ user_data.website = <<>> => ENABLED AnalyzePatterns
    /\ Scored =>
        /\ user_data.revenue = <<>> => patterns.revenue_patterns = NoData
        /\ DOMAIN user_data.developer = {} => patterns.development_patterns = NoData
        /\ DOMAIN user_data.customer = {} => patterns.customer_patterns = NoData
        /\ user_data.website = <<>> => patterns.website_patterns = NoData
        /\ insights.health_score =
               50 + (IF patterns.revenue_patterns = NoData THEN 0
                     ELSE IF patterns.revenue_patterns.trend = "growing" THEN 20 ELSE -20)
                  + (IF patterns.customer_patterns = NoData THEN 0
                     ELSE IF patterns.customer_patterns.engagement = "high" THEN 15
                     ELSE IF patterns.customer_patterns.engagement = "low" THEN -15
                     ELSE 0)
                  + (IF patterns.development_patterns = NoData THEN 0
                     ELSE IF patterns.development_patterns.activity_level
                                 \in {"active", "very_active"} THEN 15
                     ELSE 0)
        /\ RiskFactors(patterns) =
               (IF patterns.revenue_patterns = NoData THEN 0
                ELSE IF patterns.revenue_patterns.trend = "declining" THEN 2 ELSE 0)
               + (IF patterns.customer_patterns = NoData THEN 0
                  ELSE IF patterns.customer_patterns.engagement = "low" THEN 2 ELSE 0)
               + (IF patterns.website_patterns = NoData THEN 0
                  ELSE IF patterns.website_patterns.engagement_quality = "low" THEN 1
                  ELSE 0)
        /\ insights.growth_potential =
               50 + (IF patterns.revenue_patterns = NoData THEN 0
                     ELSE IF patterns.revenue_patterns.trend = "growing" THEN 20 ELSE 0)
                  + (IF patterns.development_patterns = NoData THEN 0
                     ELSE IF patterns.development_patterns.activity_level = "very_active"
                     THEN 20 ELSE 0)
                  + (IF patterns.website_patterns = NoData THEN 0
                     ELSE IF patterns.website_patterns.traffic_trend = "growing" THEN 10
                     ELSE 0)

C9_Witness ==
    /\ Scored
    /\ user_data = NoDataSnapshot
    /\ patterns.revenue_patterns = NoData /\ patterns.development_patterns = NoData
    /\ patterns.customer_patterns = NoData /\ patterns.website_patterns = NoData
    /\ insights.health_score = 50
    /\ insights.churn_risk = "low"
    /\ insights.growth_potential = 50

\* C10: an empty revenue series gives the revenue pattern the status no_data,
\* and health_score and growth_potential are then the values obtained from
\* the other categories alone, with neither +20 nor -20 for revenue.
C10_EmptyRevenueContributesZero ==
    Scored /\ user_data.revenue = <<>> =>
        /\ Has(patterns.revenue_patterns, "status")
        /\ patterns.revenue_patterns.status = "no_data"
        /\ insights.health_score =
               Clamp(0, 100, 50 + (IF Engagement = "high" THEN 15
                                   ELSE IF Engagement = "low" THEN -15 ELSE 0)
                                + (IF ActivityLevel \in {"active", "very_active"}
                                   THEN 15 ELSE 0))
        /\ insights.growth_potential =
               Clamp(0, 100, 50 + (IF ActivityLevel = "very_active" THEN 20 ELSE 0)
                                + (IF TrafficTrend = "growing" THEN 10 ELSE 0))

C10_Witness ==
    /\ Scored
    /\ user_data.revenue = <<>>
    /\ Engagement = "high" /\ ActivityLevel = "very_active" /\ TrafficTrend = "growing"
    /\ insights.health_score = 80
    /\ insights.growth_potential = 80

SnapshotOf(u) ==
    classified[CHOOSE i \in 1..Len(classified) : classified[i].user_id = u].user_data

C12_Assessment(r) ==
    <<r.insights.health_score, r.insights.churn_risk, r.insights.growth_potential,
      r.insights.user_type, r.recommendations>>

RecordsOf(u) == {i \in 1..Len(table) : table[i].user_id = u}

AlertsOf(u) == {i \in 1..Len(alerts) : alerts[i].user_id = u}

C13_HighSubset(recs) == SelectSeq(recs, LAMBDA r : r.priority = "high")

\* everything C13 says except the distance between the two timestamps
C13_RecordAndAlert(u) ==
    /\ Cardinality(RecordsOf(u)) = 1
    /\ \A i \in RecordsOf(u) :
           /\ Has(table[i], "created_at") /\ Has(table[i], "expires_at")
           /\ IF C13_HighSubset(table[i].recommendations) = <<>>
              THEN AlertsOf(u) = {}
              ELSE /\ Cardinality(AlertsOf(u)) = 1
                   /\ \A a \in AlertsOf(u) :
                          alerts[a].recommendations
                              = C13_HighSubset(table[i].recommendations)

\* C13: for every account whose analysis completes there is exactly one
\* stored record with that account id, its expiry is 7 days after its creation
\* timestamp, and the alert sent for the account carries exactly its
\* high-priority recommendations in their original order.
C13_OneRecordExpiringAfterSevenDays ==
    \A k \in 1..Len(log) :
        log[k].msg = "Analysis complete" =>
            /\ C13_RecordAndAlert(log[k].user_id)
            /\ \A i \in RecordsOf(log[k].user_id) :
                   table[i].expires_at = table[i].created_at + SevenDays

Started == SelectSeq(log, LAMBDA l : l.msg = "Analyzing user")

Outcomes ==
    SelectSeq(log, LAMBDA l : l.msg \in {"Analysis complete", "Error analyzing user"})

C14_InListOrder(entries) ==
    /\ Len(entries) <= Len(ActiveUsers)
    /\ \A k \in 1..Len(entries) : entries[k].user_id = ActiveUsers[k]

C14_Safety ==
    /\ C14_InListOrder(Started)
    /\ C14_InListOrder(Outcomes)
    /\ Len(Outcomes) <= Len(Started) /\ Len(Started) <= Len(Outcomes) + 1
    /\ \A i, j \in 1..Len(classified) :
           i < j => UserIndex(classified[i].user_id) < UserIndex(classified[j].user_id)
    /\ pc = "done" =>
           /\ Len(Started) = Len(ActiveUsers)
           /\ Len(Outcomes) = Len(ActiveUsers)
           /\ idx = Len(ActiveUsers) + 1

\* C14: in one run each account of the active list is taken up exactly once,
\* in list order, and gets exactly one outcome (complete or error) with no
\* second attempt; the run ends, and it ends with the list exhausted.
C14_EachAccountOnceThenDone == []C14_Safety /\ <>(pc = "done")

C14_Witness ==
    /\ pc = "done"
    /\ Len(Outcomes) = 3
    /\ Outcomes[1].msg = "Error analyzing user"
    /\ Outcomes[2].msg = "Analysis complete"
    /\ Outcomes[3].msg = "Error analyzing user"

\* the patterns of the current account have been computed
Classified == Has(patterns, "revenue_patterns")

RECURSIVE TotalGrowth(_)
TotalGrowth(series) ==
    IF series = <<>> THEN 0
    ELSE Get(series[1], "growth_rate", 0) + TotalGrowth(Tail(series))

\* C15: for a non-empty revenue series the trend is 'growing' iff the sum of
\* the growth_rate values of the series is > 0, and 'declining' otherwise.
C15_TrendIsSignOfSum ==
    Classified /\ user_data.revenue # <<>> =>
        patterns.revenue_patterns.trend =
            IF TotalGrowth(user_data.revenue) > 0 THEN "growing" ELSE "declining"

C15_Witness ==
    /\ Classified
    /\ Len(user_data.revenue) = 2
    /\ Get(user_data.revenue[1], "growth_rate", 0) = 20
    /\ Get(user_data.revenue[2], "growth_rate", 0) = -19
    /\ patterns.revenue_patterns.trend = "growing"

WithGrowthRate(series) == {i \in 1..Len(series) : Has(series[i], "growth_rate")}

\* C16: avg_growth_rate is the mean of the growth_rate values of all entries
\* that have a growth_rate, entries with growth_rate 0 included in the
\* count, and 0 when no entry has one.
C16_AverageOverEntriesWithRate ==
    Classified /\ user_data.revenue # <<>> =>
        LET avg == patterns.revenue_patterns.avg_growth_rate
            n   == Cardinality(WithGrowthRate(user_data.revenue))
        IN  IF n = 0 THEN avg.num = 0
            ELSE avg.num * n = TotalGrowth(user_data.revenue) * avg.den

\* C17: for a non-empty revenue series the stability is 'stable' iff every
\* growth_rate present has absolute value < 20 (20 and -20 make it
\* 'volatile'), and 'volatile' otherwise.
C17_StableIffAllBelowTwenty ==
    Classified /\ user_data.revenue # <<>> =>
        patterns.revenue_patterns.revenue_stability =
            IF \A i \in WithGrowthRate(user_data.revenue) :
                   /\ user_data.revenue[i].growth_rate < 20
                   /\ user_data.revenue[i].growth_rate > -20
            THEN "stable" ELSE "volatile"

C17_Witness ==
    /\ Classified
    /\ Len(user_data.revenue) = 2
    /\ Get(user_data.revenue[1], "growth_rate", 0) = 19
    /\ Get(user_data.revenue[2], "growth_rate", 0) = -20
    /\ patterns.revenue_patterns.revenue_stability = "volatile"

\* C18: current_mrr is the revenue of the last entry of the series, and the
\* user-type classifier sees an mrr of 0 when the series is empty.
C18_CurrentMrrIsLastRevenue ==
    /\ Classified /\ user_data.revenue # <<>> =>
           patterns.revenue_patterns.current_mrr
               = user_data.revenue[Len(user_data.revenue)].revenue
    /\ Scored /\ DOMAIN user_data.developer = {} =>
           insights.user_type =
               LET mrr == IF user_data.revenue = <<>> THEN 0
                          ELSE user_data.revenue[Len(user_data.revenue)].revenue
               IN  IF mrr > 5000 THEN "enterprise_customer"
                   ELSE IF mrr > 500 THEN "business_customer"
                   ELSE "standard_user"

C18_Witness ==
    /\ Scored
    /\ Len(user_data.revenue) = 2
    /\ user_data.revenue[1].revenue = 500
    /\ user_data.revenue[2].revenue = 5001
    /\ patterns.revenue_patterns.current_mrr = 5001
    /\ insights.user_type = "enterprise_customer"

\* C19: activity_level follows strict thresholds on productivity_score (a
\* missing score counts as 0): above 100 very_active, above 50 active, above
\* 20 moderate, otherwise low; 100, 50 and 20 fall into the lower band.
C19_ActivityBands ==
    Classified /\ DOMAIN user_data.developer # {} =>
        LET score == IF Has(user_data.developer, "productivity_score")
                     THEN user_data.developer.productivity_score ELSE 0
            level == patterns.development_patterns.activity_level
        IN  /\ score >= 101 => level = "very_active"
            /\ score \in 51..100 => level = "active"
            /\ score \in 21..50 => level = "moderate"
            /\ score <= 20 => level = "low"

C19_Witness ==
    /\ Classified
    /\ Has(user_data.developer, "productivity_score")
    /\ user_data.developer.productivity_score = 100
    /\ patterns.development_patterns.activity_level = "active"

\* C20: most_active_day 0..6 is named Sunday..Saturday in that order, and
\* every other integer, negative ones and 9 included, is named 'Unknown'.
C20_DayNames ==
    Classified /\ Has(user_data.developer, "most_active_day") =>
        LET d    == user_data.developer.most_active_day
            name == patterns.development_patterns.most_active_day
        IN  /\ d = 0 => name = "Sunday"
            /\ d = 1 => name = "Monday"
            /\ d = 2 => name = "Tuesday"
            /\ d = 3 => name = "Wednesday"
            /\ d = 4 => name = "Thursday"
            /\ d = 5 => name = "Friday"
            /\ d = 6 => name = "Saturday"
            /\ (d < 0 \/ d > 6) => name = "Unknown"

C20_Witness ==
    /\ Classified
    /\ Has(user_data.developer, "most_active_day")
    /\ user_data.developer.most_active_day = 9
    /\ patterns.development_patterns.most_active_day = "Unknown"

\* C21: customer_value follows strict thresholds on lifetime_value (a missing
\* lifetime_value counts as 0): above 10000 enterprise, above 1000 premium,
\* above 100 standard, otherwise basic.
C21_ValueTiers ==
    Classified /\ DOMAIN user_data.customer # {} =>
        LET ltv  == IF Has(user_data.customer, "lifetime_value")
                    THEN user_data.customer.lifetime_value ELSE 0
            tier == patterns.customer_patterns.customer_value
        IN  /\ ltv >= 10001 => tier = "enterprise"
            /\ ltv \in 1001..10000 => tier = "premium"
            /\ ltv \in 101..1000 => tier = "standard"
            /\ ltv <= 100 => tier = "basic"

C21_Witness ==
    /\ Classified
    /\ Has(user_data.customer, "lifetime_value")
    /\ user_data.customer.lifetime_value = 10000
    /\ patterns.customer_patterns.customer_value = "premium"

DailyUsers == [i \in 1..Len(user_data.website) |-> user_data.website[i].daily_users]

\* the split-half comparison in exact arithmetic: s1 / n1 and s2 / n2 are the
\* means of the first floor(n/2) points and of the rest
C22_SplitHalf(values) ==
    LET n  == Len(values)
        n1 == n \div 2
        n2 == n - n1
        s1 == SumSeq(SubSeq(values, 1, n1))
        s2 == SumSeq(SubSeq(values, n1 + 1, n))
    IN  IF 10 * s2 * n1 > 11 * s1 * n2 THEN "growing"
        ELSE IF 10 * s2 * n1 < 9 * s1 * n2 THEN "declining"
        ELSE "stable"

\* C22: with n >= 2 points traffic_trend compares the mean of the first
\* floor(n/2) daily_users with the mean of the rest: 'growing' if the second
\* mean is > 1.1 times the first, 'declining' if it is < 0.9 times the first,
\* else 'stable'; with fewer than 2 points it is 'insufficient_data' and the
\* website adds 0 to growth_potential.
C22_SplitHalfTrend ==
    /\ Classified /\ user_data.website # <<>> =>
           patterns.website_patterns.traffic_trend =
               IF Len(DailyUsers) < 2 THEN "insufficient_data"
               ELSE C22_SplitHalf(DailyUsers)
    /\ Scored /\ Len(user_data.website) = 1 =>
           insights.growth_potential =
               Min(100, 50 + (IF Trend = "growing" THEN 20 ELSE 0)
                           + (IF ActivityLevel = "very_active" THEN 20 ELSE 0))

\* new_users / users summed over the entries with users > 0, as an exact
\* fraction
RECURSIVE C23_RatioSum(_)
C23_RatioSum(website_data) ==
    IF website_data = <<>> THEN [num |-> 0, den |-> 1]
    ELSE LET d    == website_data[1]
             rest == C23_RatioSum(Tail(website_data))
         IN  IF d.users > 0
             THEN [num |-> d.new_users * rest.den + rest.num * d.users,
                   den |-> d.users * rest.den]
             ELSE rest

\* C23: growth_phase follows the mean over all entries of new_users / users,
\* an entry with users <= 0 counting as 0: mean > 0.7 early_stage, mean > 0.3
\* growth_stage, otherwise mature_stage; no non-empty series makes the
\* computation fail on a division.
C23_GrowthPhaseOfMeanRatio ==
    /\ (/\ pc = "patterns"
        /\ user_data.revenue = <<>>
        /\ \A i \in 1..Len(user_data.website) :
               WebsiteKeys \subseteq DOMAIN user_data.website[i])
           => ~AnalyzeRaises(user_data) /\ ENABLED AnalyzePatterns
    /\ Classified /\ user_data.website # <<>> =>
           LET r == C23_RatioSum(user_data.website)
               n == Len(user_data.website)
           IN  patterns.website_patterns.growth_phase =
                   IF 10 * r.num > 7 * r.den * n THEN "early_stage"
                   ELSE IF 10 * r.num > 3 * r.den * n THEN "growth_stage"
                   ELSE "mature_stage"

\* the stage that may follow each stage of analyze_user_workflow
C24_NextStage ==
    [fetch |-> "patterns", patterns |-> "insights", insights |-> "recommend",
     recommend |-> "store", store |-> "alert"]

C24_Step ==
    /\ pc' # pc =>
           \/ pc = "loop" /\ pc' \in {"fetch", "done"}
           \/ pc \in DOMAIN C24_NextStage /\ pc' = C24_NextStage[pc]
           \/ pc \in DOMAIN C24_NextStage \cup {"alert"} /\ pc' = "loop"
    \* a stage is entered with the result of the stage before it
    /\ pc' = "patterns" /\ pc # pc' =>
           DOMAIN user_data' = {"customer", "developer", "revenue", "website"}
    /\ pc' = "insights" /\ pc # pc' =>
           /\ user_data' = user_data
           /\ patterns' = AnalyzePatternsOf(user_data)
    /\ pc' = "recommend" /\ pc # pc' =>
           /\ patterns' = patterns
           /\ DOMAIN insights' = {"ai_analysis", "user_type", "health_score",
                                  "churn_risk", "growth_potential"}
           /\ insights'.health_score = CalculateHealthScore(patterns)
           /\ insights'.churn_risk = CalculateChurnRisk(patterns)
           /\ insights'.growth_potential = CalculateGrowthPotential(patterns)
    /\ pc' = "store" /\ pc # pc' =>
           /\ insights' = insights
           /\ recommendations' = CreateRecommendationsOf(insights)
    \* the record is written by the last stage, from the results of the others
    /\ table' # table =>
           /\ pc = "store" /\ pc' = "alert"
           /\ Len(table') = Len(table) + 1
           /\ SubSeq(table', 1, Len(table)) = table
           /\ table'[Len(table')].user_id = CurrentUser
           /\ table'[Len(table')].insights = insights
           /\ table'[Len(table')].recommendations = recommendations
    \* a stage that fails ends the analysis of the account
    /\ (Len(log') > Len(log) /\ log'[Len(log')].msg = "Error analyzing user") =>
           pc' = "loop" /\ idx' = idx + 1 /\ table' = table

\* C24: for each account the stages run in the order fetch, classify, score,
\* recommend, persist; a stage starts only from the completed stage before it
\* and with that stage's result.
C24_StagesInOrder == [][C24_Step]_vars

C24_Witness ==
    /\ pc = "alert"
    /\ user_data = ScenarioB
    /\ patterns = AnalyzePatternsOf(ScenarioB)
    /\ insights.health_score = 15
    /\ recommendations = <<RevenueRecommendation>>
    /\ Len(table) = 1
    /\ table[1].user_id = CurrentUser
    /\ table[1].recommendations = recommendations

C25_Types(recs) == {recs[i].type : i \in 1..Len(recs)}

\* C25: health_score < 70 and growth_potential > 80 never hold together, so
\* the 'revenue' and the 'growth' recommendation are never both in one
\* account's list, and the list never has more than 2 entries.
C25_RevenueAndGrowthExclusive ==
    /\ Scored => ~(insights.health_score < 70 /\ insights.growth_potential > 80)
    /\ pc = "store" =>
           /\ ~({"revenue", "growth"} \subseteq C25_Types(recommendations))
           /\ Len(recommendations) <= 2

C25_Witness ==
    /\ pc = "store"
    /\ Trend = "growing" /\ Engagement = "low" /\ ActivityLevel = "very_active"
    /\ insights.health_score = 70
    /\ insights.growth_potential > 80
    /\ C25_Types(recommendations) = {"growth"}

\* C26: churn_risk is a function of the revenue trend and the customer
\* engagement alone (both declining and low: high; one of them: medium;
\* neither: low), whatever the website series is; the +1 of the website never
\* moves the counter over a threshold.
C26_ChurnRiskIgnoresWebsite ==
    /\ Scored =>
           insights.churn_risk =
               IF Trend = "declining" /\ Engagement = "low" THEN "high"
               ELSE IF Trend = "declining" \/ Engagement = "low" THEN "medium"
               ELSE "low"
    /\ Scored =>
           insights.churn_risk
               = CalculateChurnRisk([patterns EXCEPT !.website_patterns = NoData])
    /\ \A c \in {0, 2, 4} : RiskTier(c + 1) = RiskTier(c)

C26_Witness ==
    /\ Scored
    /\ Trend = "declining" /\ Engagement # "low" /\ EngagementQuality = "low"
    /\ RiskFactors(patterns) = 3
    /\ insights.churn_risk = "medium"

\* C27: for every pattern report of the classifier the sums computed before
\* the clamps already lie in range (health in 15..100, growth in 50..100), so
\* the stored scores are the sums themselves.
C27_ClampNeverActs ==
    Scored =>
        /\ HealthSum(patterns) \in 15..100
        /\ insights.health_score = HealthSum(patterns)
        /\ GrowthSum(patterns) \in 50..100
        /\ insights.growth_potential = GrowthSum(patterns)

C27_Witness ==
    /\ Scored
    /\ Trend = "growing" /\ Engagement = "high" /\ ActivityLevel = "very_active"
    /\ patterns.website_patterns.traffic_trend = "growing"
    /\ HealthSum(patterns) = 100 /\ insights.health_score = 100
    /\ GrowthSum(patterns) = 100 /\ insights.growth_potential = 100

\* a non-empty revenue series whose growth_rate is missing or zero everywhere
C28_FlatRevenue ==
    /\ user_data.revenue # <<>>
    /\ \A i \in 1..Len(user_data.revenue) :
           \/ ~Has(user_data.revenue[i], "growth_rate")
           \/ user_data.revenue[i].growth_rate = 0

C28_WithoutRevenue == [patterns EXCEPT !.revenue_patterns = NoData]

\* C28: a non-empty revenue series in which every growth_rate is missing or
\* zero is classified with trend 'declining' and not as no_data; compared with
\* the same account without revenue data, health_score is 20 lower and the
\* churn counter 2 higher.
C28_FlatRevenueCountsAsDeclining ==
    (Scored /\ C28_FlatRevenue) =>
        /\ ~Has(patterns.revenue_patterns, "status")
        /\ Trend = "declining"
        /\ insights.health_score = CalculateHealthScore(C28_WithoutRevenue) - 20
        /\ RiskFactors(patterns) = RiskFactors(C28_WithoutRevenue) + 2
        /\ insights.churn_risk # "low"

C28_Witness ==
    /\ Scored
    /\ user_data.revenue = <<[revenue |-> 1001, growth_rate |-> 0], [revenue |-> 1001]>>
    /\ user_data.customer = EmptyDict /\ user_data.developer = EmptyDict
    /\ Trend = "declining"
    /\ insights.health_score = 30
    /\ RiskFactors(patterns) \in {2, 3}
    /\ insights.churn_risk = "medium"

\* a call of send_alert either returns (an entry of alerts) or raises (an
\* error entry of the log for the alert stage)
C29_RaisedAlerts(u) ==
    {k \in 1..Len(log) : /\ log[k].msg = "Error analyzing user"
                         /\ log[k].user_id = u
                         /\ log[k].e = "alert"}

C29_Invocations(u) == Cardinality(AlertsOf(u)) + Cardinality(C29_RaisedAlerts(u))

C29_Finished(u) ==
    \E k \in 1..Len(log) :
        /\ log[k].msg \in {"Analysis complete", "Error analyzing user"}
        /\ log[k].user_id = u

C29_Alerting(rec) ==
    rec.insights.health_score < 70 \/ rec.insights.growth_potential > 80

C29_AccountInvariant(u) ==
    /\ C29_Invocations(u) <= 1
    /\ C29_Invocations(u) = 1 => Cardinality(RecordsOf(u)) = 1
    /\ \A a \in AlertsOf(u) : alerts[a].recommendations # <<>>
    /\ C29_Finished(u) =>
           (C29_Invocations(u) = 1 <=> \E i \in RecordsOf(u) : C29_Alerting(table[i]))

\* a step that calls send_alert is taken with the record of the current
\* account already in the table and with a non-empty list
C29_Step ==
    (\/ alerts' # alerts
     \/ \E u \in {ActiveUsers[j] : j \in 1..Len(ActiveUsers)} :
            C29_RaisedAlerts(u)' # C29_RaisedAlerts(u))
        => /\ pc = "alert"
           /\ RecordsOf(CurrentUser) # {}
           /\ table[Len(table)].user_id = CurrentUser
           /\ HighPriority(table[Len(table)].recommendations) # <<>>
           /\ table' = table

\* C29: send_alert is called for an account only after the account's record
\* has been inserted, at most once per account and run, only with a non-empty
\* list, and exactly for the accounts whose stored health_score is below 70 or
\* whose stored growth_potential is above 80.
C29_AlertAfterRecordOncePerAccount ==
    /\ [](\A j \in 1..Len(ActiveUsers) : C29_AccountInvariant(ActiveUsers[j]))
    /\ [][C29_Step]_vars

C29_Witness ==
    /\ pc = "done"
    /\ \E u1, u2, u3 \in {ActiveUsers[j] : j \in 1..Len(ActiveUsers)} :
           /\ Cardinality(AlertsOf(u1)) = 1
           /\ \E i \in RecordsOf(u1) : table[i].insights.health_score < 70
           /\ C29_Invocations(u2) = 0
           /\ \E i \in RecordsOf(u2) : ~C29_Alerting(table[i])
           /\ Cardinality(C29_RaisedAlerts(u3)) = 1
           /\ \E i \in RecordsOf(u3) : table[i].insights.growth_potential > 80

C30_EarlyStages == {"fetch", "patterns", "insights"}

\* the accounts whose analysis failed in the fetch, the classification or the
\* insight generation
C30_FailedEarly ==
    {log[k].user_id : k \in {n \in 1..Len(log) :
                                 /\ log[n].msg = "Error analyzing user"
                                 /\ log[n].e \in C30_EarlyStages}}

C30_Completed ==
    {log[k].user_id : k \in {n \in 1..Len(log) : log[n].msg = "Analysis complete"}}

\* the step in which such a failure is handled changes neither the table nor
\* the alerts
C30_Step ==
    (/\ Len(log') = Len(log) + 1
     /\ log'[Len(log')].msg = "Error analyzing user"
     /\ log'[Len(log')].e \in C30_EarlyStages)
        => table' = table /\ alerts' = alerts

\* C30: an account whose analysis fails in the data fetch, the classification
\* or the insight generation gets no record and no alert in the run, and the
\* records and alerts of the other accounts are as they would be without it.
C30_EarlyFailureLeavesNoTrace ==
    /\ [](/\ \A u \in C30_FailedEarly :
                 /\ RecordsOf(u) = {}
                 /\ AlertsOf(u) = {}
                 /\ C29_RaisedAlerts(u) = {}
          /\ \A u \in C30_Completed :
                 /\ Cardinality(RecordsOf(u)) = 1
                 /\ \A i \in RecordsOf(u) :
                        Cardinality(AlertsOf(u))
                            = IF HighPriority(table[i].recommendations) # <<>>
                              THEN 1 ELSE 0)
    /\ [][C30_Step]_vars

C30_Witness ==
    /\ pc = "done"
    /\ C30_FailedEarly = {ActiveUsers[2]}
    /\ \E k \in 1..Len(log) :
           log[k] = [user_id |-> ActiveUsers[2], msg |-> "Error analyzing user",
                     e |-> "insights"]
    /\ C30_Completed = {ActiveUsers[1], ActiveUsers[3]}
    /\ Len(table) = 2
    /\ table[1].user_id = ActiveUsers[1] /\ table[2].user_id = ActiveUsers[3]
    /\ Len(alerts) = 1 /\ alerts[1].user_id = ActiveUsers[1]

====
